---- MODULE Spec2Model ----
(***************************************************************************)
(* Memo / invoice reconciliation of the transport billing application:     *)
(* the App shell (navigation state), the invoice form (InvoiceForm), the   *)
(* invoice list (InvoiceCRUD) and the memo list (MemoCRUD), running        *)
(* against the ledger store.  Every asynchronous store request is an       *)
(* in-flight request that completes (successfully or not) in a later step, *)
(* so the interleavings of completions with user events are explored.      *)
(* Amounts are whole currency units; text that the code parses is a        *)
(* sequence of one-character strings.                                      *)
(***************************************************************************)
EXTENDS Integers, Sequences, FiniteSets, TLC

\* ------------------------------------------------------------------ bounds
\* identifiers the store hands out: 1..MaxInvoices
MaxInvoices == 2
\* invoice numbers generateNewInvoiceNumber hands out: 1..MaxNumbers
MaxNumbers == 2
\* requests still in flight whose component has been unmounted
MaxOrphans == 1
\* presses of the Download PDF button counted for one form
MaxPrints == 1

\* ------------------------------------------------------------ ledger data
MemoNos == {"M1", "M2"}
Customers == {"Acme", "Bolt"}

\* MemoData.customers_name of each memo
MemoCustomer(m) == "Acme"

\* MemoData.trips_total_amt of each memo: a string
MemoTotalAmt(m) ==
    IF m = "M1" THEN <<"5", "0", "0">> ELSE <<"3", "0", "0">>

\* `null` / `undefined` of an invoice identifier, and of a memo number
NullId == -1
NullMemo == "null"

\* the invoice number strings the generator hands out, in generation order
InvoiceNoTable == <<"INV-001", "INV-002", "INV-003", "INV-004", "INV-005">>
Today == "2026-11-01"

\* JavaScript truthiness of a number, of a string
TruthyNum(n) == n # NullId /\ n # 0
TruthyStr(s) == s # ""

\* ------------------------------------------------------------- parseFloat
\* the NaN that parseFloat returns for text with no numeric prefix
NaN == -999999
IsDigit(c) == c \in {"0", "1", "2", "3", "4", "5", "6", "7", "8", "9"}
DigitVal(c) ==
    CASE c = "0" -> 0 [] c = "1" -> 1 [] c = "2" -> 2 [] c = "3" -> 3
      [] c = "4" -> 4 [] c = "5" -> 5 [] c = "6" -> 6 [] c = "7" -> 7
      [] c = "8" -> 8 [] OTHER -> 9

RECURSIVE LeadingDigits(_)
LeadingDigits(s) ==
    IF s = <<>> \/ ~IsDigit(Head(s)) THEN <<>>
    ELSE <<Head(s)>> \o LeadingDigits(Tail(s))

RECURSIVE DigitsValue(_)
DigitsValue(d) ==
    IF d = <<>> THEN 0
    ELSE 10 * DigitsValue(SubSeq(d, 1, Len(d) - 1)) + DigitVal(d[Len(d)])

\* parseFloat on whole-number text: an optional sign, then the longest run of
\* digits; NaN when there is none
parseFloat(s) ==
    LET neg  == s # <<>> /\ Head(s) = "-"
        body == IF s # <<>> /\ Head(s) \in {"-", "+"} THEN Tail(s) ELSE s
        d    == LeadingDigits(body)
    IN  IF d = <<>> THEN NaN
        ELSE IF neg THEN 0 - DigitsValue(d) ELSE DigitsValue(d)

\* `x || 0` on a number: NaN and 0 are falsy
OrZero(x) == IF x = NaN \/ x = 0 THEN 0 ELSE x
\* `a + b` on numbers: NaN is absorbing
Plus(a, b) == IF a = NaN \/ b = NaN THEN NaN ELSE a + b

\* ---------------------------------------------------------------- invoice
InvoiceStatuses == {"Draft", "Finalized", "Paid"}

initialInvoiceState ==
    [ id            |-> NullId,
      invoice_no    |-> "",
      invoice_date  |-> Today,
      customer_name |-> "",
      memo_nos      |-> <<>>,
      total_amount  |-> 0,
      amount_paid   |-> 0,
      balance       |-> 0,
      status        |-> "Draft" ]

Range(s) == {s[i] : i \in DOMAIN s}

\* SumMemos without the `|| '0'` default: a memo missing from the lookup
\* makes the sum NaN
RECURSIVE SumMemosNoDefault(_, _)
SumMemosNoDefault(memoNos, lookup) ==
    IF memoNos = <<>> THEN 0
    ELSE LET n == Len(memoNos)
             m == memoNos[n]
         IN  Plus(SumMemosNoDefault(SubSeq(memoNos, 1, n - 1), lookup),
                  IF m \in lookup THEN parseFloat(MemoTotalAmt(m)) ELSE NaN)

\* memo_nos.reduce((sum, memoNo) => sum + parseFloat(memo?.trips_total_amt || '0'), 0)
RECURSIVE SumMemos(_, _)
SumMemos(memoNos, lookup) ==
    IF memoNos = <<>> THEN 0
    ELSE LET n    == Len(memoNos)
             m    == memoNos[n]
             text == IF m \in lookup /\ MemoTotalAmt(m) # <<>>
                     THEN MemoTotalAmt(m) ELSE <<"0">>
         IN  Plus(SumMemos(SubSeq(memoNos, 1, n - 1), lookup), parseFloat(text))

\* calculateTotals when the effect misses amount_paid among its dependencies:
\* the balance is recomputed only when the total changes
calculateTotalsStaleBalance(inv, lookup) ==
    LET total == OrZero(SumMemos(inv.memo_nos, lookup))
    IN  [inv EXCEPT !.total_amount = total,
                    !.balance = IF total = inv.total_amount THEN inv.balance
                                ELSE total - OrZero(inv.amount_paid)]

\* calculateTotals, run by the effect after every render in which memo_nos,
\* amount_paid or allMemos changed
calculateTotals(inv, lookup) ==
    LET total      == OrZero(SumMemos(inv.memo_nos, lookup))
        amountPaid == OrZero(inv.amount_paid)
    IN  [inv EXCEPT !.total_amount = total, !.balance = total - amountPaid]

\* ------------------------------------------------------------------ store
\* The ledger store (services/googleScriptMock): a set of persisted invoices
\* with distinct identifiers, the set of existing memo numbers, and the two
\* counters behind identifier and invoice-number generation.  Each operation
\* executes atomically at the moment its request completes.
InvoiceById(st, id) == CHOOSE i \in st.invoices : i.id = id
HasInvoice(st, id) == \E i \in st.invoices : i.id = id

\* the rank of an invoice number under localeCompare ("" sorts first)
InvoiceNoRank(no) ==
    IF no = "" THEN 0
    ELSE CHOOSE k \in 1..Len(InvoiceNoTable) : InvoiceNoTable[k] = no

\* the rank of a memo number under localeCompare
MemoRank(m) == IF m = "M1" THEN 1 ELSE 2

\* getMemos(): the memo numbers in the store
getMemos(st) == st.memos

\* getInvoices(): the persisted invoices, oldest first
RECURSIVE InvoicesInOrder(_)
InvoicesInOrder(S) ==
    IF S = {} THEN <<>>
    ELSE LET first == CHOOSE i \in S : \A j \in S : i.id <= j.id
         IN  <<first>> \o InvoicesInOrder(S \ {first})
getInvoices(st) == InvoicesInOrder(st.invoices)

\* a memo is linked when some persisted invoice lists it
LinkedTo(st, m) == {i.id : i \in {j \in st.invoices : m \in Range(j.memo_nos)}}
IsLinked(st, m) == LinkedTo(st, m) # {}

\* getUninvoicedMemosForCustomer(name): the customer's memos that no
\* persisted invoice lists
getUninvoicedMemosForCustomer(st, name) ==
    {m \in st.memos : MemoCustomer(m) = name /\ ~IsLinked(st, m)}

\* addInvoice(draft): persists the draft under the next identifier
addInvoice(st, draft) ==
    [st EXCEPT !.invoices = @ \cup {[draft EXCEPT !.id = st.nextId]},
               !.nextId = @ + 1]

\* updateInvoice(invoice): replaces the persisted invoice of that identifier
updateInvoice(st, inv) ==
    [st EXCEPT !.invoices = {i \in @ : i.id # inv.id} \cup {inv}]

\* deleteInvoice(id), deleteMemo(memoNo)
deleteInvoice(st, id) == [st EXCEPT !.invoices = {i \in @ : i.id # id}]
deleteMemo(st, m) == [st EXCEPT !.memos = @ \ {m}]

\* generateNewInvoiceNumber(): a number never handed out before
generateNewInvoiceNumber(st) == InvoiceNoTable[st.nextNo]
NumberTaken(st) == [st EXCEPT !.nextNo = @ + 1]

\* ------------------------------------------------------------------ state
VARIABLES
    app,       \* App: currentPage, editingMemoNo, editingInvoiceId, printOnLoad, printInvoiceOnLoad
    store,     \* the ledger store
    form,      \* InvoiceForm: its state and its requests in flight
    invList,   \* InvoiceCRUD: its state and its request in flight
    memoList,  \* MemoCRUD: its state and its requests in flight
    orphans,   \* requests in flight whose component has been unmounted
    toasts,    \* the notices raised (addToast) by the latest step
    lastOp     \* the handler or continuation that ran in the latest step

vars == <<app, store, form, invList, memoList, orphans, toasts, lastOp>>

Pages == {"DASHBOARD", "CREATE_MEMO", "MANAGE_MEMOS", "MANAGE_INVOICES", "INVOICE_FORM"}
\* the pages the sidebar offers
SidebarPages == {"DASHBOARD", "CREATE_MEMO", "MANAGE_MEMOS", "MANAGE_INVOICES"}

AppInitial ==
    [ currentPage        |-> "DASHBOARD",
      editingMemoNo      |-> NullMemo,
      editingInvoiceId   |-> NullId,
      printOnLoad        |-> FALSE,
      printInvoiceOnLoad |-> FALSE ]

StoreInitial ==
    [ invoices |-> {}, memos |-> MemoNos, nextId |-> 1, nextNo |-> 1 ]

\* InvoiceForm's useState initial values; pc is the position of
\* loadInitialData ("load1": customers and memos requested, "load2": the
\* invoice requested, "gen": the invoice number requested, "load3": the
\* eligible memos requested, "ready": finished).  Of the print effect:
\* listening is the registered afterprint listener, printTimer the pending
\* timer of window.print(), doneTimers the pending timers of onPrinted;
\* signalled (handleAfterPrint has run) and printCalls (the calls of
\* window.print()) record what this instance has done.
FormMounted ==
    [ invoice        |-> initialInvoiceState,
      availableMemos |-> {},
      allMemos       |-> {},
      customers      |-> {},
      isLoading      |-> TRUE,
      isSaving       |-> FALSE,
      pc             |-> "load1",
      saveReq        |-> {},
      custReqs       |-> {},
      listening      |-> FALSE,
      printTimer     |-> FALSE,
      doneTimers     |-> 0,
      signalled      |-> FALSE,
      printCalls     |-> 0 ]
FormUnmounted == [FormMounted EXCEPT !.pc = "unmounted"]

\* InvoiceCRUD's useState initial values; pc is the request in flight
\* ("fetch": fetchData on mount, "delete": deleteInvoice, "refetch": the
\* fetchData that follows a delete, "idle": none)
InvListMounted ==
    [ invoices            |-> <<>>,
      isLoading           |-> TRUE,
      isDeleteConfirmOpen |-> FALSE,
      invoiceToDelete     |-> NullId,
      isSubmitting        |-> FALSE,
      pc                  |-> "fetch",
      deleteReq           |-> NullId ]
InvListUnmounted == [InvListMounted EXCEPT !.pc = "unmounted"]

\* MemoCRUD's useState initial values; gotMemos / gotInvoices hold the
\* result of the request of Promise.all that has completed first
NoEntry == "undefined"
EmptyMap == [m \in MemoNos |-> NoEntry]
MemoListMounted ==
    [ memos               |-> <<>>,
      invoiceMap          |-> EmptyMap,
      isLoading           |-> TRUE,
      isDeleteConfirmOpen |-> FALSE,
      memoToDelete        |-> NullMemo,
      isSubmitting        |-> FALSE,
      pc                  |-> "fetch",
      gotMemos            |-> <<>>,
      gotInvoices         |-> <<>>,
      deleteReq           |-> NullMemo ]
MemoListUnmounted == [MemoListMounted EXCEPT !.pc = "unmounted"]

Init ==
    /\ app = AppInitial
    /\ store = StoreInitial
    /\ form = FormUnmounted
    /\ invList = InvListUnmounted
    /\ memoList = MemoListUnmounted
    /\ orphans = {}
    /\ toasts = <<>>
    /\ lastOp = "init"

\* -------------------------------------------------------------------- App
\* a navigation that does not forget which invoice was opened, nor how
handleNavigateKeepingInvoice(page) ==
    [app EXCEPT !.currentPage = page, !.editingMemoNo = NullMemo,
                !.printOnLoad = FALSE]

handleNavigate(page) ==
    [ currentPage        |-> page,
      editingMemoNo      |-> NullMemo,
      editingInvoiceId   |-> NullId,
      printOnLoad        |-> FALSE,
      printInvoiceOnLoad |-> FALSE ]

handleEditMemo(memoNo) ==
    [app EXCEPT !.editingMemoNo = memoNo, !.printOnLoad = FALSE,
                !.currentPage = "CREATE_MEMO"]

handleDownloadMemo(memoNo) ==
    [app EXCEPT !.editingMemoNo = memoNo, !.printOnLoad = TRUE,
                !.currentPage = "CREATE_MEMO"]

handleMemoFormClose ==
    [app EXCEPT !.editingMemoNo = NullMemo, !.printOnLoad = FALSE,
                !.currentPage = "MANAGE_MEMOS"]

handleEditInvoice(invoiceId) ==
    [app EXCEPT !.editingInvoiceId = invoiceId, !.printInvoiceOnLoad = FALSE,
                !.currentPage = "INVOICE_FORM"]

handleDownloadInvoice(invoiceId) ==
    [app EXCEPT !.editingInvoiceId = invoiceId, !.printInvoiceOnLoad = TRUE,
                !.currentPage = "INVOICE_FORM"]

\* a close that does not forget which invoice was being edited
handleInvoiceFormCloseKeepsId ==
    [app EXCEPT !.printInvoiceOnLoad = FALSE, !.currentPage = "MANAGE_INVOICES"]

\* a close that leaves the application on the form
handleInvoiceFormCloseStaying ==
    [app EXCEPT !.editingInvoiceId = NullId, !.printInvoiceOnLoad = FALSE]

handleInvoiceFormClose ==
    [app EXCEPT !.editingInvoiceId = NullId, !.printInvoiceOnLoad = FALSE,
                !.currentPage = "MANAGE_INVOICES"]

\* onCreateInvoice={() => setCurrentPage(Page.INVOICE_FORM)}
onCreateInvoice == [app EXCEPT !.currentPage = "INVOICE_FORM"]

\* A request left in flight by an unmounted component: its continuation
\* still runs when it completes.
Orphan(kind, id, memo, inv) == [kind |-> kind, id |-> id, memo |-> memo, inv |-> inv]

\* The requests the mounted components f (form), il (invoice list) and
\* ml (memo list) leave in flight when they are unmounted.  Requests whose
\* continuation can do no more than raise a notice are not followed.
OrphanedBy(f, il, ml) ==
    (IF f.pc \in {"load1", "load2"} /\ TruthyNum(app.editingInvoiceId)
     THEN {Orphan(f.pc, app.editingInvoiceId, NullMemo, initialInvoiceState)}
     ELSE {})
    \cup {Orphan(r.op, NullId, NullMemo, r.inv) : r \in f.saveReq}
    \cup (IF f.doneTimers > 0
          THEN {Orphan("printed", NullId, NullMemo, initialInvoiceState)}
          ELSE {})
    \cup (IF il.pc = "delete"
          THEN {Orphan("deleteInvoice", il.deleteReq, NullMemo, initialInvoiceState)}
          ELSE {})
    \cup (IF ml.pc = "delete"
          THEN {Orphan("deleteMemo", NullId, ml.deleteReq, initialInvoiceState)}
          ELSE {})

\* a print effect without its `!isLoading`
PrintEffectIgnoringLoad(f, printOnLoad) ==
    IF printOnLoad
    THEN [f EXCEPT !.listening = TRUE, !.printTimer = TRUE]
    ELSE f

\* The print effect, run after a render in which isLoading, printOnLoad or
\* onPrinted changed: once the load is over in download mode it registers
\* handleAfterPrint and sets the timer of window.print().
PrintEffect(f, printOnLoad) ==
    IF ~f.isLoading /\ printOnLoad
    THEN [f EXCEPT !.listening = TRUE, !.printTimer = TRUE]
    ELSE f

\* renderPage: App re-renders with its new state.  The page component stays
\* mounted while currentPage is the same; otherwise it is unmounted and the
\* component of the new page is mounted with its initial state.  f, il, ml
\* and orph are the components and orphans as the running handler left them.
Route(newApp, f, il, ml, orph) ==
    /\ app' = newApp
    /\ IF newApp.currentPage = app.currentPage
       THEN /\ form' = f
            /\ invList' = il
            /\ memoList' = ml
            /\ orphans' = orph
       ELSE /\ form' = IF newApp.currentPage = "INVOICE_FORM"
                       THEN PrintEffect(FormMounted, newApp.printInvoiceOnLoad)
                       ELSE FormUnmounted
            /\ invList' = IF newApp.currentPage = "MANAGE_INVOICES"
                          THEN InvListMounted ELSE InvListUnmounted
            /\ memoList' = IF newApp.currentPage = "MANAGE_MEMOS"
                           THEN MemoListMounted ELSE MemoListUnmounted
            /\ orphans' = orph \cup OrphanedBy(f, il, ml)
            /\ Cardinality(orphans') <= MaxOrphans

\* Sidebar: setCurrentPage={handleNavigate}
Navigate(page) ==
    /\ handleNavigate(page) # app
    /\ Route(handleNavigate(page), form, invList, memoList, orphans)
    /\ toasts' = <<>>
    /\ lastOp' = "handleNavigate"
    /\ UNCHANGED store

\* MemoForm (CREATE_MEMO page) calls onSaveSuccess, onCancel or onPrinted
MemoFormClose ==
    /\ app.currentPage = "CREATE_MEMO"
    /\ Route(handleMemoFormClose, form, invList, memoList, orphans)
    /\ toasts' = <<>>
    /\ lastOp' = "handleMemoFormClose"
    /\ UNCHANGED store

\* ------------------------------------------------------------ InvoiceForm
\* what the user can type or pick in the form's inputs
AmountInputs == { <<>>, <<"2", "0", "0">>, <<"-", "5", "0">> }
DateInputs == {"", "2026-11-02"}

FormShown == app.currentPage = "INVOICE_FORM" /\ ~form.isLoading

\* displayMemos: the rows of the selection table
displayMemos(f) ==
    f.availableMemos \cup
    (IF TruthyNum(f.invoice.id)
     THEN {m \in Range(f.invoice.memo_nos) : m \in f.allMemos}
     ELSE {})

\* loadInitialData up to its first await: Promise.all([getCustomers(), getMemos()])
LoadCustomersAndMemosDone ==
    /\ form.pc = "load1"
    /\ \/ /\ form' = [form EXCEPT
                !.customers = Customers,
                !.allMemos = getMemos(store),
                !.invoice = calculateTotals(@, getMemos(store)),
                !.pc = IF TruthyNum(app.editingInvoiceId) THEN "load2" ELSE "gen"]
          /\ toasts' = <<>>
       \/ /\ form' = PrintEffect([form EXCEPT !.isLoading = FALSE, !.pc = "ready"],
                                  app.printInvoiceOnLoad)
          /\ toasts' = <<"Failed to load initial data.">>
    /\ lastOp' = "loadInitialData"
    /\ UNCHANGED <<app, store, invList, memoList, orphans>>

\* loadInitialData after `await getInvoiceById(invoiceIdToLoad)`
LoadInvoiceDone ==
    /\ form.pc = "load2"
    /\ lastOp' = "loadInitialData"
    /\ UNCHANGED store
    /\ \/ /\ HasInvoice(store, app.editingInvoiceId)
          /\ form' = [form EXCEPT
                !.invoice = calculateTotals(InvoiceById(store, app.editingInvoiceId),
                                            form.allMemos),
                !.pc = "load3"]
          /\ toasts' = <<>>
          /\ UNCHANGED <<app, invList, memoList, orphans>>
       \/ /\ ~HasInvoice(store, app.editingInvoiceId)
          /\ toasts' = <<"Invoice not found.">>
          /\ Route(handleInvoiceFormClose,
                   [form EXCEPT !.isLoading = FALSE, !.pc = "ready"],
                   invList, memoList, orphans)
       \/ /\ form' = PrintEffect([form EXCEPT !.isLoading = FALSE, !.pc = "ready"],
                                  app.printInvoiceOnLoad)
          /\ toasts' = <<"Failed to load initial data.">>
          /\ UNCHANGED <<app, invList, memoList, orphans>>

\* loadInitialData after `await generateNewInvoiceNumber()`
LoadNumberDone ==
    /\ form.pc = "gen"
    /\ lastOp' = "loadInitialData"
    /\ UNCHANGED <<app, invList, memoList, orphans>>
    /\ \/ /\ store.nextNo <= MaxNumbers
          /\ form' = PrintEffect([form EXCEPT
                !.invoice = [initialInvoiceState EXCEPT
                                !.invoice_no = generateNewInvoiceNumber(store)],
                !.isLoading = FALSE,
                !.pc = "ready"], app.printInvoiceOnLoad)
          /\ store' = NumberTaken(store)
          /\ toasts' = <<>>
       \/ /\ form' = PrintEffect([form EXCEPT !.isLoading = FALSE, !.pc = "ready"],
                                  app.printInvoiceOnLoad)
          /\ toasts' = <<"Failed to load initial data.">>
          /\ UNCHANGED store

\* loadInitialData after `await getUninvoicedMemosForCustomer(loadedInvoice.customer_name)`
LoadEligibleDone ==
    /\ form.pc = "load3"
    /\ lastOp' = "loadInitialData"
    /\ UNCHANGED <<app, store, invList, memoList, orphans>>
    /\ \/ /\ form' = PrintEffect([form EXCEPT
                !.availableMemos =
                    getUninvoicedMemosForCustomer(store, form.invoice.customer_name),
                !.isLoading = FALSE,
                !.pc = "ready"], app.printInvoiceOnLoad)
          /\ toasts' = <<>>
       \/ /\ form' = PrintEffect([form EXCEPT !.isLoading = FALSE, !.pc = "ready"],
                                  app.printInvoiceOnLoad)
          /\ toasts' = <<"Failed to load initial data.">>

\* handleCustomerChange up to its await
handleCustomerChange(customerName) ==
    /\ FormShown
    /\ customerName \in form.customers \cup {""}
    /\ lastOp' = "handleCustomerChange"
    /\ toasts' = <<>>
    /\ UNCHANGED <<app, store, invList, memoList, orphans>>
    /\ IF TruthyNum(form.invoice.id)
       THEN form' = form
       ELSE form' = [form EXCEPT
                !.invoice = calculateTotals(
                    [@ EXCEPT !.customer_name = customerName, !.memo_nos = <<>>],
                    form.allMemos),
                !.custReqs = IF TruthyStr(customerName)
                             THEN @ \cup {customerName} ELSE @,
                !.availableMemos = IF TruthyStr(customerName) THEN @ ELSE {}]

\* handleCustomerChange after `await getUninvoicedMemosForCustomer(customerName)`;
\* a rejection is not caught
CustomerMemosDone(customerName) ==
    /\ app.currentPage = "INVOICE_FORM"
    /\ customerName \in form.custReqs
    /\ toasts' = <<>>
    /\ UNCHANGED <<app, store, invList, memoList, orphans>>
    /\ \/ /\ form' = [form EXCEPT
                !.availableMemos = getUninvoicedMemosForCustomer(store, customerName),
                !.custReqs = @ \ {customerName}]
          /\ lastOp' = "customerMemosLoaded"
       \/ /\ form' = [form EXCEPT !.custReqs = @ \ {customerName}]
          /\ lastOp' = "customerMemosRejected"

\* a handleMemoSelection whose change of memo_nos is followed by no
\* recomputation of the totals
handleMemoSelectionStaleTotals(memoNo, isSelected) ==
    /\ FormShown
    /\ memoNo \in displayMemos(form)
    /\ isSelected = (memoNo \notin Range(form.invoice.memo_nos))
    /\ LET currentMemos == form.invoice.memo_nos
           Keep(m) == m # memoNo
           newMemos == IF isSelected THEN Append(currentMemos, memoNo)
                       ELSE SelectSeq(currentMemos, Keep)
       IN  form' = [form EXCEPT !.invoice.memo_nos = newMemos]
    /\ lastOp' = "handleMemoSelection"
    /\ toasts' = <<>>
    /\ UNCHANGED <<app, store, invList, memoList, orphans>>

\* handleMemoSelection, called by the checkbox of a displayed row with the
\* negation of its checked state
handleMemoSelection(memoNo, isSelected) ==
    /\ FormShown
    /\ memoNo \in displayMemos(form)
    /\ isSelected = (memoNo \notin Range(form.invoice.memo_nos))
    /\ LET currentMemos == form.invoice.memo_nos
           Keep(m) == m # memoNo
           newMemos == IF isSelected THEN Append(currentMemos, memoNo)
                       ELSE SelectSeq(currentMemos, Keep)
       IN  form' = [form EXCEPT
                !.invoice = calculateTotals([@ EXCEPT !.memo_nos = newMemos],
                                            form.allMemos)]
    /\ lastOp' = "handleMemoSelection"
    /\ toasts' = <<>>
    /\ UNCHANGED <<app, store, invList, memoList, orphans>>

\* the amount_paid input: setInvoice(p => ({...p, amount_paid: parseFloat(value) || 0}))
SetAmountPaid(text) ==
    /\ FormShown
    /\ form' = [form EXCEPT
            !.invoice = calculateTotals(
                [@ EXCEPT !.amount_paid = OrZero(parseFloat(text))], form.allMemos)]
    /\ lastOp' = "setAmountPaid"
    /\ toasts' = <<>>
    /\ UNCHANGED <<app, store, invList, memoList, orphans>>

\* an invoice_date input that builds the draft anew around the date
SetInvoiceDateReplacingDraft(date) ==
    /\ FormShown
    /\ date # form.invoice.invoice_date
    /\ form' = [form EXCEPT !.invoice = [initialInvoiceState EXCEPT !.invoice_date = date]]
    /\ lastOp' = "setInvoiceDate"
    /\ toasts' = <<>>
    /\ UNCHANGED <<app, store, invList, memoList, orphans>>

\* the invoice_date input
SetInvoiceDate(date) ==
    /\ FormShown
    /\ date # form.invoice.invoice_date
    /\ form' = [form EXCEPT !.invoice.invoice_date = date]
    /\ lastOp' = "setInvoiceDate"
    /\ toasts' = <<>>
    /\ UNCHANGED <<app, store, invList, memoList, orphans>>

\* the status select
SetStatus(status) ==
    /\ FormShown
    /\ status # form.invoice.status
    /\ form' = [form EXCEPT !.invoice.status = status]
    /\ lastOp' = "setStatus"
    /\ toasts' = <<>>
    /\ UNCHANGED <<app, store, invList, memoList, orphans>>

\* the validation without its check of the selection
SaveAllowedIgnoringMemos(inv) ==
    ~(~TruthyStr(inv.customer_name) \/ ~TruthyStr(inv.invoice_date))

\* the validation at the head of handleSave
SaveAllowed(inv) ==
    ~(~TruthyStr(inv.customer_name) \/ ~TruthyStr(inv.invoice_date)
      \/ Len(inv.memo_nos) = 0)

\* the notice handleSave raises for a draft its validation rejects
ValidationNotice(inv) == "Please select a customer, date, and at least one memo."

\* handleSave without its `if (invoice.id)`
SaveOpAlwaysCreate(inv) == "create"

\* the store write handleSave chooses
SaveOp(inv) == IF TruthyNum(inv.id) THEN "update" ELSE "create"

CreatesInFlight == Cardinality({o \in orphans : o.kind = "create"})

\* a Save button that is never disabled
SaveNeverDisabled(f) == FALSE

\* the Save button: disabled={isSaving}
SaveDisabled(f) == f.isSaving

\* handleSave up to its await; the button is disabled while isSaving
handleSave ==
    /\ FormShown
    /\ ~SaveDisabled(form)
    /\ lastOp' = "handleSave"
    /\ UNCHANGED <<app, store, invList, memoList, orphans>>
    /\ IF ~SaveAllowed(form.invoice)
       THEN /\ toasts' = <<ValidationNotice(form.invoice)>>
            /\ form' = form
       ELSE /\ SaveOp(form.invoice) = "create"
                    => store.nextId + CreatesInFlight <= MaxInvoices
            /\ toasts' = <<>>
            /\ form' = [form EXCEPT
                    !.isSaving = TRUE,
                    !.saveReq = {[op |-> SaveOp(form.invoice), inv |-> form.invoice]}]

\* the store's answer to a save request
SaveEffect(st, r) ==
    IF r.op = "update" THEN updateInvoice(st, r.inv) ELSE addInvoice(st, r.inv)
SaveCanSucceed(st, r) == r.op = "update" => HasInvoice(st, r.inv.id)
SaveSuccessToast(r) ==
    IF r.op = "update" THEN "Invoice updated successfully!"
    ELSE "Invoice created successfully!"

\* a finally block that also puts the draft back to its initial state
AfterSaveDraftReset(f) ==
    [f EXCEPT !.isSaving = FALSE, !.saveReq = {},
              !.invoice = [initialInvoiceState EXCEPT !.invoice_no = f.invoice.invoice_no]]

\* handleSave's finally block: setIsSaving(false); the request is answered
AfterSave(f) == [f EXCEPT !.isSaving = FALSE, !.saveReq = {}]

\* handleSave after its await, for the mounted form
SaveDone ==
    /\ app.currentPage = "INVOICE_FORM"
    /\ \E r \in form.saveReq :
        \/ /\ SaveCanSucceed(store, r)
           /\ store' = SaveEffect(store, r)
           /\ toasts' = <<SaveSuccessToast(r)>>
           /\ lastOp' = "saveSucceeded"
           /\ Route(handleInvoiceFormClose, AfterSave(form),
                    invList, memoList, orphans)
        \/ /\ toasts' = <<"Failed to save invoice.">>
           /\ lastOp' = "saveFailed"
           /\ form' = AfterSave(form)
           /\ UNCHANGED <<app, store, invList, memoList, orphans>>

\* the Cancel button: onCancel
CancelForm ==
    /\ FormShown
    /\ Route(handleInvoiceFormClose, form, invList, memoList, orphans)
    /\ toasts' = <<>>
    /\ lastOp' = "onCancel"
    /\ UNCHANGED store

\* window.print() followed at once by the timer of onPrinted
PrintInvokedThenDone(f) ==
    [f EXCEPT !.printTimer = FALSE, !.printCalls = @ + 1, !.doneTimers = @ + 1]

\* window.print()
PrintInvoked(f) == [f EXCEPT !.printTimer = FALSE, !.printCalls = @ + 1]

\* the print effect's setTimeout(() => window.print(), 300) fires
PrintTimerFires ==
    /\ app.currentPage = "INVOICE_FORM"
    /\ form.printTimer
    /\ form' = PrintInvoked(form)
    /\ toasts' = <<>>
    /\ lastOp' = "window.print"
    /\ UNCHANGED <<app, store, invList, memoList, orphans>>

\* the Download PDF button: onClick={() => window.print()}, disabled
\* without invoice.id
DownloadPDF ==
    /\ app.currentPage = "INVOICE_FORM"
    /\ ~form.isLoading
    /\ TruthyNum(form.invoice.id)
    /\ form.printCalls < MaxPrints
    /\ form' = [form EXCEPT !.printCalls = @ + 1]
    /\ toasts' = <<>>
    /\ lastOp' = "downloadPDF"
    /\ UNCHANGED <<app, store, invList, memoList, orphans>>

\* handleAfterPrint without its removeEventListener
handleAfterPrintKeepsListening(f) ==
    [f EXCEPT !.doneTimers = @ + 1, !.signalled = TRUE]

\* handleAfterPrint: it removes itself and sets the timer of onPrinted
handleAfterPrint(f) ==
    [f EXCEPT !.listening = FALSE, !.doneTimers = @ + 1, !.signalled = TRUE]

\* the window's afterprint event, which a print dialog closing raises; the
\* form hears it only through its registered listener
AfterPrintSignal ==
    /\ app.currentPage = "INVOICE_FORM"
    /\ form' = IF form.listening THEN handleAfterPrint(form) ELSE form
    /\ toasts' = <<>>
    /\ lastOp' = "afterprint"
    /\ UNCHANGED <<app, store, invList, memoList, orphans>>

\* handleAfterPrint's setTimeout(() => onPrinted(), 100) fires;
\* onPrinted={handleInvoiceFormClose}
PrintDoneTimerFires ==
    /\ app.currentPage = "INVOICE_FORM"
    /\ form.doneTimers > 0
    /\ Route(handleInvoiceFormClose, [form EXCEPT !.doneTimers = @ - 1],
             invList, memoList, orphans)
    /\ toasts' = <<>>
    /\ lastOp' = "onPrinted"
    /\ UNCHANGED store

\* ------------------------------------------------------------ InvoiceCRUD
\* data.sort((a, b) => b.invoice_no.localeCompare(a.invoice_no)): descending
\* invoice number, invoices of equal number in the order received
RECURSIVE SortInvoicesDesc(_)
SortInvoicesDesc(S) ==
    IF S = {} THEN <<>>
    ELSE LET top == CHOOSE i \in S : \A j \in S :
                        \/ InvoiceNoRank(i.invoice_no) > InvoiceNoRank(j.invoice_no)
                        \/ /\ InvoiceNoRank(i.invoice_no) = InvoiceNoRank(j.invoice_no)
                           /\ i.id <= j.id
         IN  <<[id |-> top.id, invoice_no |-> top.invoice_no]>>
             \o SortInvoicesDesc(S \ {top})

InvRowsShown == app.currentPage = "MANAGE_INVOICES" /\ ~invList.isLoading
InvRowIds == {invList.invoices[k].id : k \in DOMAIN invList.invoices}

\* what closeDeleteConfirmation sets
InvConfirmClosed(il) ==
    [il EXCEPT !.invoiceToDelete = NullId, !.isDeleteConfirmOpen = FALSE]

\* fetchData after `await getInvoices()`, on mount (pc = "fetch") and after a
\* delete (pc = "refetch", where handleDelete's finally block follows)
InvListFetchDone ==
    /\ invList.pc \in {"fetch", "refetch"}
    /\ LET after(il) == IF invList.pc = "refetch"
                        THEN InvConfirmClosed([il EXCEPT !.isSubmitting = FALSE])
                        ELSE il
       IN  \/ /\ invList' = after([invList EXCEPT
                        !.invoices = SortInvoicesDesc(store.invoices),
                        !.isLoading = FALSE,
                        !.pc = "idle"])
              /\ toasts' = <<>>
           \/ /\ invList' = after([invList EXCEPT !.isLoading = FALSE, !.pc = "idle"])
              /\ toasts' = <<"Failed to fetch invoices.">>
    /\ lastOp' = "invoiceList.fetchData"
    /\ UNCHANGED <<app, store, form, memoList, orphans>>

\* the Edit button of a row
EditInvoice(invoiceId) ==
    /\ InvRowsShown
    /\ invoiceId \in InvRowIds
    /\ Route(handleEditInvoice(invoiceId), form, invList, memoList, orphans)
    /\ toasts' = <<>>
    /\ lastOp' = "handleEditInvoice"
    /\ UNCHANGED store

\* the Download button of a row
DownloadInvoice(invoiceId) ==
    /\ InvRowsShown
    /\ invoiceId \in InvRowIds
    /\ Route(handleDownloadInvoice(invoiceId), form, invList, memoList, orphans)
    /\ toasts' = <<>>
    /\ lastOp' = "handleDownloadInvoice"
    /\ UNCHANGED store

\* the Create New Invoice button
CreateInvoice ==
    /\ app.currentPage = "MANAGE_INVOICES"
    /\ store.nextNo <= MaxNumbers
    /\ Route(onCreateInvoice, form, invList, memoList, orphans)
    /\ toasts' = <<>>
    /\ lastOp' = "onCreateInvoice"
    /\ UNCHANGED store

\* the Delete button of a row: openDeleteConfirmation
OpenInvoiceDeleteConfirmation(invoiceId) ==
    /\ InvRowsShown
    /\ invoiceId \in InvRowIds
    /\ invList' = [invList EXCEPT !.invoiceToDelete = invoiceId,
                                  !.isDeleteConfirmOpen = TRUE]
    /\ toasts' = <<>>
    /\ lastOp' = "invoiceList.openDeleteConfirmation"
    /\ UNCHANGED <<app, store, form, memoList, orphans>>

\* the Cancel button of the confirmation: closeDeleteConfirmation
CloseInvoiceDeleteConfirmation ==
    /\ app.currentPage = "MANAGE_INVOICES"
    /\ invList.isDeleteConfirmOpen
    /\ invList' = InvConfirmClosed(invList)
    /\ toasts' = <<>>
    /\ lastOp' = "invoiceList.closeDeleteConfirmation"
    /\ UNCHANGED <<app, store, form, memoList, orphans>>

\* the Delete button of the confirmation (disabled while isSubmitting):
\* handleDelete up to its await
ConfirmInvoiceDelete ==
    /\ app.currentPage = "MANAGE_INVOICES"
    /\ invList.isDeleteConfirmOpen
    /\ ~invList.isSubmitting
    /\ TruthyNum(invList.invoiceToDelete)
    /\ invList' = [invList EXCEPT !.isSubmitting = TRUE, !.pc = "delete",
                                  !.deleteReq = invList.invoiceToDelete]
    /\ toasts' = <<>>
    /\ lastOp' = "invoiceList.handleDelete"
    /\ UNCHANGED <<app, store, form, memoList, orphans>>

\* handleDelete after `await deleteInvoice(id)`
InvoiceDeleteDone ==
    /\ invList.pc = "delete"
    /\ \/ /\ store' = deleteInvoice(store, invList.deleteReq)
          /\ invList' = [invList EXCEPT !.isLoading = TRUE, !.pc = "refetch",
                                        !.deleteReq = NullId]
          /\ toasts' = <<"Invoice deleted successfully">>
          /\ lastOp' = "invoiceList.deleted"
       \/ /\ invList' = InvConfirmClosed([invList EXCEPT
                            !.isSubmitting = FALSE, !.pc = "idle", !.deleteReq = NullId])
          /\ toasts' = <<"Failed to delete invoice">>
          /\ lastOp' = "invoiceList.deleteFailed"
          /\ UNCHANGED store
    /\ UNCHANGED <<app, form, memoList, orphans>>

\* --------------------------------------------------------------- MemoCRUD
\* memoData.sort((a, b) => b.trips_memo_no.localeCompare(a.trips_memo_no))
RECURSIVE SortMemosDesc(_)
SortMemosDesc(S) ==
    IF S = {} THEN <<>>
    ELSE LET top == CHOOSE m \in S : \A n \in S : MemoRank(m) >= MemoRank(n)
         IN  <<top>> \o SortMemosDesc(S \ {top})

\* newInvoiceMap: every memo number of every invoice, in the order received,
\* set to that invoice's number (a later invoice overwrites an earlier one)
RECURSIVE BuildInvoiceMap(_)
BuildInvoiceMap(invoiceData) ==
    IF invoiceData = <<>> THEN EmptyMap
    ELSE LET n    == Len(invoiceData)
             last == invoiceData[n]
             rest == BuildInvoiceMap(SubSeq(invoiceData, 1, n - 1))
         IN  [m \in MemoNos |->
                IF m \in Range(last.memo_nos) THEN last.invoice_no ELSE rest[m]]

\* const isInvoiced = !!invoiceMap.get(memo.trips_memo_no)
isInvoiced(ml, m) == ml.invoiceMap[m] # NoEntry /\ TruthyStr(ml.invoiceMap[m])

MemoRowsShown == app.currentPage = "MANAGE_MEMOS" /\ ~memoList.isLoading
MemoRows == Range(memoList.memos)

\* a close of the confirmation that keeps the row it was opened for
MemoConfirmKeepsRow(ml) ==
    [ml EXCEPT !.isDeleteConfirmOpen = FALSE]

MemoConfirmClosed(ml) ==
    [ml EXCEPT !.memoToDelete = NullMemo, !.isDeleteConfirmOpen = FALSE]

\* what follows fetchData when it was called by handleDelete: its finally block
MemoAfterFetch(ml) ==
    IF memoList.pc = "refetch"
    THEN MemoConfirmClosed([ml EXCEPT !.isSubmitting = FALSE])
    ELSE ml

MemoFetchSucceeded(memoData, newInvoiceMap) ==
    MemoAfterFetch([memoList EXCEPT
        !.invoiceMap = newInvoiceMap,
        !.memos = SortMemosDesc(memoData),
        !.isLoading = FALSE,
        !.pc = "idle",
        !.gotMemos = <<>>,
        !.gotInvoices = <<>>])

MemoFetchFailed ==
    MemoAfterFetch([memoList EXCEPT
        !.isLoading = FALSE, !.pc = "idle", !.gotMemos = <<>>, !.gotInvoices = <<>>])

\* fetchData: getMemos() of Promise.all([getMemos(), getInvoices()]) completes
MemoListGetMemosDone ==
    /\ memoList.pc \in {"fetch", "refetch"}
    /\ memoList.gotMemos = <<>>
    /\ \/ /\ memoList' = IF memoList.gotInvoices = <<>>
                         THEN [memoList EXCEPT !.gotMemos = <<getMemos(store)>>]
                         ELSE MemoFetchSucceeded(getMemos(store), memoList.gotInvoices[1])
          /\ toasts' = <<>>
       \/ /\ memoList' = MemoFetchFailed
          /\ toasts' = <<"Failed to fetch memo and invoice data.">>
    /\ lastOp' = "memoList.fetchData"
    /\ UNCHANGED <<app, store, form, invList, orphans>>

\* fetchData: getInvoices() of Promise.all([getMemos(), getInvoices()]) completes
MemoListGetInvoicesDone ==
    /\ memoList.pc \in {"fetch", "refetch"}
    /\ memoList.gotInvoices = <<>>
    /\ \/ /\ memoList' = IF memoList.gotMemos = <<>>
                         THEN [memoList EXCEPT
                                 !.gotInvoices = <<BuildInvoiceMap(getInvoices(store))>>]
                         ELSE MemoFetchSucceeded(memoList.gotMemos[1],
                                                 BuildInvoiceMap(getInvoices(store)))
          /\ toasts' = <<>>
       \/ /\ memoList' = MemoFetchFailed
          /\ toasts' = <<"Failed to fetch memo and invoice data.">>
    /\ lastOp' = "memoList.fetchData"
    /\ UNCHANGED <<app, store, form, invList, orphans>>

\* the Edit button of a row, disabled when isInvoiced
EditMemo(memoNo) ==
    /\ MemoRowsShown
    /\ memoNo \in MemoRows
    /\ ~isInvoiced(memoList, memoNo)
    /\ Route(handleEditMemo(memoNo), form, invList, memoList, orphans)
    /\ toasts' = <<>>
    /\ lastOp' = "handleEditMemo"
    /\ UNCHANGED store

\* the Download PDF button of a row
DownloadMemo(memoNo) ==
    /\ MemoRowsShown
    /\ memoNo \in MemoRows
    /\ Route(handleDownloadMemo(memoNo), form, invList, memoList, orphans)
    /\ toasts' = <<>>
    /\ lastOp' = "handleDownloadMemo"
    /\ UNCHANGED store

\* the Delete button of a row, disabled when isInvoiced: openDeleteConfirmation
OpenMemoDeleteConfirmation(memoNo) ==
    /\ MemoRowsShown
    /\ memoNo \in MemoRows
    /\ ~isInvoiced(memoList, memoNo)
    /\ memoList' = [memoList EXCEPT !.memoToDelete = memoNo,
                                    !.isDeleteConfirmOpen = TRUE]
    /\ toasts' = <<>>
    /\ lastOp' = "memoList.openDeleteConfirmation"
    /\ UNCHANGED <<app, store, form, invList, orphans>>

\* the Cancel button of the confirmation: closeDeleteConfirmation
CloseMemoDeleteConfirmation ==
    /\ app.currentPage = "MANAGE_MEMOS"
    /\ memoList.isDeleteConfirmOpen
    /\ memoList.memoToDelete # NullMemo
    /\ memoList' = MemoConfirmClosed(memoList)
    /\ toasts' = <<>>
    /\ lastOp' = "memoList.closeDeleteConfirmation"
    /\ UNCHANGED <<app, store, form, invList, orphans>>

\* the Delete button of the confirmation (disabled while isSubmitting):
\* handleDelete up to its await
ConfirmMemoDelete ==
    /\ app.currentPage = "MANAGE_MEMOS"
    /\ memoList.isDeleteConfirmOpen
    /\ memoList.memoToDelete # NullMemo
    /\ ~memoList.isSubmitting
    /\ memoList' = [memoList EXCEPT !.isSubmitting = TRUE, !.pc = "delete",
                                    !.deleteReq = memoList.memoToDelete]
    /\ toasts' = <<>>
    /\ lastOp' = "memoList.handleDelete"
    /\ UNCHANGED <<app, store, form, invList, orphans>>

\* handleDelete after `await deleteMemo(memoNo)`
MemoDeleteDone ==
    /\ memoList.pc = "delete"
    /\ \/ /\ store' = deleteMemo(store, memoList.deleteReq)
          /\ memoList' = [memoList EXCEPT !.isLoading = TRUE, !.pc = "refetch",
                                          !.deleteReq = NullMemo]
          /\ toasts' = <<"Memo deleted successfully">>
          /\ lastOp' = "memoList.deleted"
       \/ /\ memoList' = MemoConfirmClosed([memoList EXCEPT
                            !.isSubmitting = FALSE, !.pc = "idle", !.deleteReq = NullMemo])
          /\ toasts' = <<"Failed to delete memo">>
          /\ lastOp' = "memoList.deleteFailed"
          /\ UNCHANGED store
    /\ UNCHANGED <<app, form, invList, orphans>>

\* ------------------------------------------- requests of unmounted components
\* The continuation of a request whose component is gone: its state updates
\* are dropped, its notices and its calls of App's handlers are not.

\* handleSave after its await, the form unmounted: onSaveSuccess still runs
OrphanSaveDone(o) ==
    /\ o \in orphans
    /\ o.kind \in {"create", "update"}
    /\ LET r == [op |-> o.kind, inv |-> o.inv]
       IN  \/ /\ SaveCanSucceed(store, r)
              /\ store' = SaveEffect(store, r)
              /\ toasts' = <<SaveSuccessToast(r)>>
              /\ lastOp' = "orphan.saveSucceeded"
              /\ Route(handleInvoiceFormClose, form, invList, memoList, orphans \ {o})
           \/ /\ toasts' = <<"Failed to save invoice.">>
              /\ lastOp' = "orphan.saveFailed"
              /\ orphans' = orphans \ {o}
              /\ UNCHANGED <<app, store, form, invList, memoList>>

\* loadInitialData after an await, the form unmounted: onCancel still runs
\* when the invoice is not found
OrphanLoadDone(o) ==
    /\ o \in orphans
    /\ o.kind \in {"load1", "load2"}
    /\ lastOp' = "orphan.loadInitialData"
    /\ UNCHANGED store
    /\ \/ /\ o.kind = "load1"
          /\ toasts' = <<>>
          /\ orphans' = (orphans \ {o}) \cup {[o EXCEPT !.kind = "load2"]}
          /\ UNCHANGED <<app, form, invList, memoList>>
       \/ /\ o.kind = "load2"
          /\ HasInvoice(store, o.id)
          /\ toasts' = <<>>
          /\ orphans' = orphans \ {o}
          /\ UNCHANGED <<app, form, invList, memoList>>
       \/ /\ o.kind = "load2"
          /\ ~HasInvoice(store, o.id)
          /\ toasts' = <<"Invoice not found.">>
          /\ Route(handleInvoiceFormClose, form, invList, memoList, orphans \ {o})
       \/ /\ toasts' = <<"Failed to load initial data.">>
          /\ orphans' = orphans \ {o}
          /\ UNCHANGED <<app, form, invList, memoList>>

\* InvoiceCRUD's handleDelete after `await deleteInvoice(id)`, the list unmounted
OrphanInvoiceDeleteDone(o) ==
    /\ o \in orphans
    /\ o.kind = "deleteInvoice"
    /\ orphans' = orphans \ {o}
    /\ UNCHANGED <<app, form, invList, memoList>>
    /\ \/ /\ store' = deleteInvoice(store, o.id)
          /\ toasts' = <<"Invoice deleted successfully">>
          /\ lastOp' = "orphan.deleted"
       \/ /\ toasts' = <<"Failed to delete invoice">>
          /\ lastOp' = "orphan.deleteFailed"
          /\ UNCHANGED store

\* MemoCRUD's handleDelete after `await deleteMemo(memoNo)`, the list unmounted
OrphanMemoDeleteDone(o) ==
    /\ o \in orphans
    /\ o.kind = "deleteMemo"
    /\ orphans' = orphans \ {o}
    /\ UNCHANGED <<app, form, invList, memoList>>
    /\ \/ /\ store' = deleteMemo(store, o.memo)
          /\ toasts' = <<"Memo deleted successfully">>
          /\ lastOp' = "orphan.deleted"
       \/ /\ toasts' = <<"Failed to delete memo">>
          /\ lastOp' = "orphan.deleteFailed"
          /\ UNCHANGED store

\* handleAfterPrint's timer fires, the form unmounted: the effect's cleanup
\* cleared the timer of window.print() and removed the listener, not this one
OrphanPrintedDone(o) ==
    /\ o \in orphans
    /\ o.kind = "printed"
    /\ Route(handleInvoiceFormClose, form, invList, memoList, orphans \ {o})
    /\ toasts' = <<>>
    /\ lastOp' = "orphan.onPrinted"
    /\ UNCHANGED store

\* ---------------------------------------------------------- specification
\* The steps of each component, over the given user inputs.
AppSteps(pages) ==
    \/ \E page \in pages : Navigate(page)
    \/ MemoFormClose

FormLoadSteps ==
    \/ LoadCustomersAndMemosDone
    \/ LoadInvoiceDone
    \/ LoadNumberDone
    \/ LoadEligibleDone

FormSelectionSteps(names) ==
    \/ \E customerName \in names : handleCustomerChange(customerName)
    \/ \E customerName \in Customers : CustomerMemosDone(customerName)
    \/ \E memoNo \in MemoNos, isSelected \in BOOLEAN : handleMemoSelection(memoNo, isSelected)

FormFieldSteps(amounts, dates, statuses) ==
    \/ \E text \in amounts : SetAmountPaid(text)
    \/ \E date \in dates : SetInvoiceDate(date)
    \/ \E status \in statuses : SetStatus(status)

FormSaveSteps ==
    \/ handleSave
    \/ SaveDone
    \/ CancelForm

FormPrintSteps ==
    \/ PrintTimerFires
    \/ DownloadPDF
    \/ AfterPrintSignal
    \/ PrintDoneTimerFires

InvListSteps ==
    \/ InvListFetchDone
    \/ \E invoiceId \in 1..MaxInvoices : EditInvoice(invoiceId)
    \/ \E invoiceId \in 1..MaxInvoices : DownloadInvoice(invoiceId)
    \/ CreateInvoice

InvListDeleteSteps ==
    \/ \E invoiceId \in 1..MaxInvoices : OpenInvoiceDeleteConfirmation(invoiceId)
    \/ CloseInvoiceDeleteConfirmation
    \/ ConfirmInvoiceDelete
    \/ InvoiceDeleteDone

MemoListSteps ==
    \/ MemoListGetMemosDone
    \/ MemoListGetInvoicesDone
    \/ \E memoNo \in MemoNos : EditMemo(memoNo)
    \/ \E memoNo \in MemoNos : DownloadMemo(memoNo)
    \/ \E memoNo \in MemoNos : OpenMemoDeleteConfirmation(memoNo)
    \/ CloseMemoDeleteConfirmation
    \/ ConfirmMemoDelete
    \/ MemoDeleteDone

\* The whole application.
Next ==
    \/ AppSteps(SidebarPages)
    \/ FormLoadSteps
    \/ FormSelectionSteps(Customers \cup {""})
    \/ FormFieldSteps(AmountInputs, DateInputs, InvoiceStatuses)
    \/ FormSaveSteps
    \/ FormPrintSteps
    \/ InvListSteps
    \/ InvListDeleteSteps
    \/ MemoListSteps
    \/ \E o \in orphans : OrphanPrintedDone(o)
    \/ \E o \in orphans : OrphanSaveDone(o)
    \/ \E o \in orphans : OrphanLoadDone(o)
    \/ \E o \in orphans : OrphanInvoiceDeleteDone(o)
    \/ \E o \in orphans : OrphanMemoDeleteDone(o)

Spec == Init /\ [][Next]_vars

\* ------------------------------------------------- parts of the application
\* Invoices only: the invoice list with its deletes, the form without its
\* date, amount and status inputs, and the requests their unmounting leaves
\* in flight.
NextInvoicing ==
    \/ \E page \in {"DASHBOARD", "MANAGE_INVOICES"} : Navigate(page)
    \/ FormLoadSteps
    \/ FormSelectionSteps({"Acme", ""})
    \/ FormSaveSteps
    \/ InvListSteps
    \/ InvListDeleteSteps
    \/ \E o \in orphans : OrphanSaveDone(o)
    \/ \E o \in orphans : OrphanLoadDone(o)
    \/ \E o \in orphans : OrphanInvoiceDeleteDone(o)

SpecInvoicing == Init /\ [][NextInvoicing]_vars

\* Totals: the form with its selection and its amount_paid input, and a memo
\* list visited before the first invoice is saved, whose delete of M1 may
\* complete at any later moment.
NextTotals ==
    \/ \E page \in {"MANAGE_INVOICES"} : Navigate(page)
    \/ store.invoices = {} /\ Navigate("MANAGE_MEMOS")
    \/ FormLoadSteps
    \/ FormSelectionSteps({"Acme"})
    \/ \E text \in {<<>>, <<"2", "0", "0">>} : SetAmountPaid(text)
    \/ FormSaveSteps
    \/ InvListFetchDone
    \/ \E invoiceId \in 1..MaxInvoices : EditInvoice(invoiceId)
    \/ CreateInvoice
    \/ MemoListGetMemosDone
    \/ MemoListGetInvoicesDone
    \/ \E memoNo \in {"M1"} : OpenMemoDeleteConfirmation(memoNo)
    \/ ConfirmMemoDelete
    \/ \E o \in orphans : OrphanMemoDeleteDone(o)

SpecTotals == Init /\ [][NextTotals]_vars

\* Saving: the form with its customer, selection and date inputs.
NextForm ==
    \/ \E page \in {"MANAGE_INVOICES"} : Navigate(page)
    \/ FormLoadSteps
    \/ FormSelectionSteps({"Acme", ""})
    \/ \E date \in DateInputs : SetInvoiceDate(date)
    \/ FormSaveSteps
    \/ InvListFetchDone
    \/ \E invoiceId \in 1..MaxInvoices : EditInvoice(invoiceId)
    \/ CreateInvoice

SpecForm == Init /\ [][NextForm]_vars

\* Memos: the memo list and the creation of invoices.
NextMemoList ==
    \/ \E page \in {"MANAGE_INVOICES", "MANAGE_MEMOS"} : Navigate(page)
    \/ MemoFormClose
    \/ CreateInvoice
    \/ LoadCustomersAndMemosDone
    \/ LoadNumberDone
    \/ FormSelectionSteps({"Acme"})
    \/ FormSaveSteps
    \/ MemoListSteps
    \/ \E o \in orphans : OrphanSaveDone(o)
    \/ \E o \in orphans : OrphanMemoDeleteDone(o)

SpecMemoList == Init /\ [][NextMemoList]_vars

\* Printing: invoices are created, then opened in download mode, where the
\* user only watches or leaves.  The timers of the print effect fire once set.
NextPrint ==
    \/ \E page \in {"DASHBOARD", "MANAGE_INVOICES"} : Navigate(page)
    \/ FormLoadSteps
    \/ ~app.printInvoiceOnLoad /\ FormSelectionSteps({"Acme"})
    \/ ~app.printInvoiceOnLoad /\ handleSave
    \/ SaveDone
    \/ CancelForm
    \/ FormPrintSteps
    \/ InvListFetchDone
    \/ \E invoiceId \in 1..MaxInvoices : DownloadInvoice(invoiceId)
    \/ CreateInvoice
    \/ \E o \in orphans : OrphanPrintedDone(o)
    \/ \E o \in orphans : OrphanSaveDone(o)
    \/ \E o \in orphans : OrphanLoadDone(o)

SpecPrint ==
    /\ Init /\ [][NextPrint]_vars
    /\ WF_vars(PrintTimerFires)
    /\ WF_vars(PrintDoneTimerFires)
    /\ WF_vars(\E o \in orphans : OrphanPrintedDone(o))

\* Amounts: invoices are created with any of the texts the amount_paid input
\* can hold.
NextAmounts ==
    \/ Navigate("MANAGE_INVOICES")
    \/ CreateInvoice
    \/ LoadCustomersAndMemosDone
    \/ LoadNumberDone
    \/ FormSelectionSteps({"Acme"})
    \/ \E text \in AmountInputs : SetAmountPaid(text)
    \/ FormSaveSteps
    \/ InvListFetchDone

SpecAmounts == Init /\ [][NextAmounts]_vars

\* Fields: one invoice is created and edited, with every input of the form
\* in use.
NextFields ==
    \/ Navigate("MANAGE_INVOICES")
    \/ FormLoadSteps
    \/ handleCustomerChange("Acme")
    \/ CustomerMemosDone("Acme")
    \/ \E isSelected \in BOOLEAN : handleMemoSelection("M1", isSelected)
    \/ FormFieldSteps({<<"2", "0", "0">>}, {"2026-11-02"}, {"Paid"})
    \/ FormSaveSteps
    \/ InvListFetchDone
    \/ EditInvoice(1)
    \/ store.invoices = {} /\ CreateInvoice

SpecFields == Init /\ [][NextFields]_vars

\* Lists: one invoice is created, and both lists are loaded and their rows
\* deleted, each request completing or being rejected at any later moment.
NextLists ==
    \/ \E page \in {"MANAGE_INVOICES", "MANAGE_MEMOS"} : Navigate(page)
    \/ store.invoices = {} /\ CreateInvoice
    \/ LoadCustomersAndMemosDone
    \/ LoadNumberDone
    \/ handleCustomerChange("Acme")
    \/ CustomerMemosDone("Acme")
    \/ \E isSelected \in BOOLEAN : handleMemoSelection("M1", isSelected)
    \/ handleSave
    \/ SaveDone
    \/ InvListFetchDone
    \/ InvListDeleteSteps
    \/ MemoListGetMemosDone
    \/ MemoListGetInvoicesDone
    \/ \E memoNo \in MemoNos : OpenMemoDeleteConfirmation(memoNo)
    \/ CloseMemoDeleteConfirmation
    \/ ConfirmMemoDelete
    \/ MemoDeleteDone
    \/ \E o \in orphans : OrphanSaveDone(o)
    \/ \E o \in orphans : OrphanInvoiceDeleteDone(o)
    \/ \E o \in orphans : OrphanMemoDeleteDone(o)

SpecLists == Init /\ [][NextLists]_vars

\* Customers: a new invoice is drafted, the customer being changed among all
\* the choices of the select, each fetch of eligible memos answered or
\* rejected at any later moment.
NextCustomers ==
    \/ Navigate("MANAGE_INVOICES")
    \/ CreateInvoice
    \/ LoadCustomersAndMemosDone
    \/ LoadNumberDone
    \/ FormSelectionSteps(Customers \cup {""})
    \/ FormSaveSteps
    \/ InvListFetchDone

SpecCustomers == Init /\ [][NextCustomers]_vars

\* ----------------------------------------------------------------- claims
\* the persisted invoices whose memo_nos contain m
InvoicesLinking(m) == {i \in store.invoices : m \in Range(i.memo_nos)}

\* C1: every memo number occurs in the memo_nos of at most one persisted
\* invoice, whatever the order in which requests complete.
C1_MemoInAtMostOneInvoice ==
    \A m \in MemoNos : Cardinality(InvoicesLinking(m)) <= 1

\* the total amount of a memo, as a number
MemoAmount(m) == IF m = "M1" THEN 500 ELSE 300

RECURSIVE AmountOfMemos(_)
AmountOfMemos(S) ==
    IF S = {} THEN 0
    ELSE LET m == CHOOSE x \in S : TRUE
         IN  MemoAmount(m) + AmountOfMemos(S \ {m})

\* the sum of the totals of the memos of memoNos found in the lookup
ExpectedTotal(memoNos, lookup) == AmountOfMemos(Range(memoNos) \cap lookup)

\* C2: the draft's total_amount is the sum of the totals of the memos in its
\* memo_nos, a memo missing from the lookup counting zero, after every step
\* of the form; so is the total_amount of every save request.
C2_TotalIsSumOfMemos ==
    /\ form.invoice.total_amount
           = ExpectedTotal(form.invoice.memo_nos, form.allMemos)
    /\ \A r \in form.saveReq :
           r.inv.total_amount = ExpectedTotal(r.inv.memo_nos, form.allMemos)

\* An invoice whose memo M1 is gone from the lookup is being edited, M2 has
\* just been checked, and the total is that of M2 alone.
C2_Witness ==
    /\ FormShown
    /\ lastOp = "handleMemoSelection"
    /\ form.invoice.memo_nos = <<"M1", "M2">>
    /\ "M1" \notin form.allMemos
    /\ form.invoice.total_amount = 300

\* C3: the draft's balance is total_amount - amount_paid after every step of
\* the form, and so is the balance of every save request and of every
\* persisted invoice.
C3_BalanceIsTotalMinusPaid ==
    /\ form.invoice.balance = form.invoice.total_amount - form.invoice.amount_paid
    /\ \A r \in form.saveReq : r.inv.balance = r.inv.total_amount - r.inv.amount_paid
    /\ \A i \in store.invoices : i.balance = i.total_amount - i.amount_paid

\* 200 has just been typed as the amount paid of a draft holding M1.
C3_Witness ==
    /\ FormShown
    /\ lastOp = "setAmountPaid"
    /\ form.invoice.memo_nos = <<"M1">>
    /\ form.invoice.amount_paid = 200
    /\ form.invoice.balance = 300

\* C4: the memo list never opens for editing, and never sends deleteMemo
\* for, a memo that is in the memo_nos of a persisted invoice at that moment.
C4_LinkedMemoNeitherEditedNorDeleted ==
    [][\A m \in MemoNos :
          (EditMemo(m) \/ (ConfirmMemoDelete /\ memoList.memoToDelete = m))
              => InvoicesLinking(m) = {}]_vars

\* C5: the memos the form offers are linked to no persisted invoice other
\* than the one being edited, and when an invoice has been loaded for
\* editing each of its memos is offered (and checked, being in memo_nos).
C5_OfferedMemosAreFreeOrOwn ==
    /\ (FormShown /\ form.pc = "ready") =>
           \A m \in displayMemos(form) :
               \A i \in InvoicesLinking(m) : i.id = form.invoice.id
    /\ (FormShown /\ lastOp = "loadInitialData" /\ TruthyNum(form.invoice.id)) =>
           Range(form.invoice.memo_nos) \subseteq displayMemos(form)

\* a draft the validation has to reject
IsInvalidDraft(inv) ==
    inv.customer_name = "" \/ inv.invoice_date = "" \/ inv.memo_nos = <<>>

\* C6: Save on a draft with an empty customer name, an empty date or an
\* empty selection sends no request to the store, leaves the draft and the
\* rest of the form as they are, and does not leave the form.
C6_InvalidSaveChangesNothing ==
    [][(handleSave /\ IsInvalidDraft(form.invoice)) =>
           /\ form' = form
           /\ form'.saveReq = {}
           /\ app' = app
           /\ store' = store
           /\ orphans' = orphans]_vars

\* Save has just been rejected for a draft with a customer and a date but
\* no memo.
C6_Witness ==
    /\ FormShown
    /\ lastOp = "handleSave"
    /\ toasts = <<ValidationNotice(form.invoice)>>
    /\ form.invoice.customer_name = "Acme"
    /\ form.invoice.invoice_date # ""
    /\ form.invoice.memo_nos = <<>>
    /\ ~form.isSaving

\* C7: a Save rejected only for its empty selection raises a notice that a
\* Save rejected for a missing customer or a missing date does not raise.
C7_NoMemosReasonIsItsOwn ==
    [][(/\ handleSave
        /\ form.invoice.customer_name # ""
        /\ form.invoice.invoice_date # ""
        /\ form.invoice.memo_nos = <<>>) =>
           /\ toasts' # <<ValidationNotice(
                  [form.invoice EXCEPT !.customer_name = "", !.memo_nos = <<"M1">>])>>
           /\ toasts' # <<ValidationNotice(
                  [form.invoice EXCEPT !.invoice_date = "", !.memo_nos = <<"M1">>])>>]_vars

\* C8: a customer change leaves customer_name and the selection as they are
\* while memo_nos is not empty, and takes effect while memo_nos is empty.
C8_CustomerChangeOnlyWhileNoMemos ==
    [][\A c \in Customers \cup {""} :
          handleCustomerChange(c) =>
              IF form.invoice.memo_nos # <<>>
              THEN /\ form'.invoice.customer_name = form.invoice.customer_name
                   /\ form'.invoice.memo_nos = form.invoice.memo_nos
              ELSE form'.invoice.customer_name = c]_vars

\* C9: a Save that passes validation sends exactly one request, an update
\* carrying the draft if the draft has an identifier and a create carrying
\* it otherwise, and the store write made when it completes is that one.
C9_OneWriteUpdateIffIdentified ==
    [][/\ (handleSave /\ ~IsInvalidDraft(form.invoice)) =>
              form'.saveReq =
                  {[op  |-> IF form.invoice.id # NullId THEN "update" ELSE "create",
                    inv |-> form.invoice]}
       /\ lastOp' = "saveSucceeded" =>
              \E r \in form.saveReq :
                  /\ form.saveReq = {r}
                  /\ store' = IF r.inv.id # NullId
                              THEN updateInvoice(store, r.inv)
                              ELSE addInvoice(store, r.inv)]_vars

\* The update of a loaded invoice has just been written.
C9_Witness ==
    /\ lastOp = "saveSucceeded"
    /\ toasts = <<"Invoice updated successfully!">>
    /\ \E i \in store.invoices : i.id = 1 /\ i.memo_nos = <<"M1", "M2">>

\* C10: when the store rejects a Save the draft is what it was, the form
\* stays open with its Save button enabled, nothing is written, and the next
\* Save sends the draft as it is then.
C10_FailedSaveKeepsDraft ==
    [][/\ lastOp' = "saveFailed" =>
              /\ form'.invoice = form.invoice
              /\ form'.availableMemos = form.availableMemos
              /\ app' = app
              /\ store' = store
              /\ app'.currentPage = "INVOICE_FORM"
              /\ ~form'.isLoading
              /\ ~form'.isSaving
              /\ form'.saveReq = {}
       /\ (lastOp = "saveFailed" /\ handleSave /\ ~IsInvalidDraft(form.invoice)) =>
              \E r \in form'.saveReq : r.inv = form.invoice]_vars

\* The store has just rejected the Save of a draft holding M1.
C10_Witness ==
    /\ lastOp = "saveFailed"
    /\ toasts = <<"Failed to save invoice.">>
    /\ FormShown
    /\ form.invoice.memo_nos = <<"M1">>

\* a step in which an invoice is looked up and the store answers not-found
NotFoundAnswered(id) ==
    /\ ~HasInvoice(store, id)
    /\ toasts' # <<"Failed to load initial data.">>

\* C11: when getInvoiceById answers not-found for the id the form was opened
\* with, exactly one notice, the not-found one, is raised, the application
\* goes back to the invoice list with no invoice being edited, and the form
\* is gone without having been shown or having sent a write.
C11_NotFoundClosesForm ==
    [][/\ (LoadInvoiceDone /\ NotFoundAnswered(app.editingInvoiceId)) =>
              /\ toasts' = <<"Invoice not found.">>
              /\ app' = [currentPage        |-> "MANAGE_INVOICES",
                         editingMemoNo      |-> app.editingMemoNo,
                         editingInvoiceId   |-> NullId,
                         printOnLoad        |-> app.printOnLoad,
                         printInvoiceOnLoad |-> FALSE]
              /\ form.isLoading
              /\ form.saveReq = {}
              /\ form'.pc = "unmounted"
              /\ store' = store
              /\ orphans' = orphans
       /\ \A o \in orphans :
              (OrphanLoadDone(o) /\ o.kind = "load2" /\ NotFoundAnswered(o.id)) =>
                  /\ toasts' = <<"Invoice not found.">>
                  /\ app'.currentPage = "MANAGE_INVOICES"
                  /\ app'.editingInvoiceId = NullId
                  /\ ~app'.printInvoiceOnLoad
                  /\ store' = store]_vars

\* The form opened for an invoice that is gone has just been closed.
C11_Witness ==
    /\ lastOp = "loadInitialData"
    /\ toasts = <<"Invoice not found.">>
    /\ app.currentPage = "MANAGE_INVOICES"
    /\ form.pc = "unmounted"

\* C12: in download mode one form raises at most one call of onPrinted,
\* however often the afterprint signal fires, and once the signal has been
\* heard that call is made.
C12_OnPrintedExactlyOnce ==
    /\ [](form.doneTimers + (IF form.listening THEN 1 ELSE 0) <= 1)
    /\ [][(lastOp' = "afterprint" /\ form.signalled) => form' = form]_vars
    /\ [][lastOp' = "onPrinted" =>
             /\ form.doneTimers = 1
             /\ form'.pc = "unmounted"
             /\ \A o \in orphans' \ orphans : o.kind # "printed"]_vars
    /\ (form.doneTimers > 0) ~> (lastOp \in {"onPrinted", "orphan.onPrinted"})

\* onPrinted has just been called by the form that heard the signal.
C12_Witness ==
    /\ lastOp = "onPrinted"
    /\ app.currentPage = "MANAGE_INVOICES"
    /\ form.pc = "unmounted"

\* C13: once the form is torn down neither window.print() nor onPrinted is
\* called for it.
C13_NothingAfterTeardown ==
    [][/\ lastOp' # "orphan.onPrinted"
       /\ form'.printCalls > form.printCalls => form.pc # "unmounted"]_vars

\* C14: window.print() is called only by the timer the print effect set or
\* by the Download PDF button, and that timer is set only once isLoading is
\* false; so it is never called while the load is outstanding nor in the
\* step that ends the load.
C14_PrintOnlyAfterLoadAndDelay ==
    /\ [](form.printTimer => (~form.isLoading /\ app.printInvoiceOnLoad))
    /\ [][form'.printCalls > form.printCalls =>
             /\ ~form.isLoading
             /\ lastOp' \in {"window.print", "downloadPDF"}
             /\ lastOp' = "window.print" => form.printTimer]_vars
    /\ [][(form.isLoading /\ ~form'.isLoading) =>
             form'.printCalls = form.printCalls]_vars

\* window.print() has just been called for the loaded invoice.
C14_Witness ==
    /\ lastOp = "window.print"
    /\ form.printCalls >= 1
    /\ ~form.isLoading
    /\ TruthyNum(form.invoice.id)

\* C15: onPrinted is called only for a form that has heard the afterprint
\* signal; without the signal the print protocol never leaves the form.
C15_OnPrintedOnlyAfterSignal ==
    [][/\ lastOp' = "onPrinted" => form.signalled
       /\ \A o \in orphans' \ orphans : o.kind = "printed" => form.signalled
       /\ form'.doneTimers > form.doneTimers => lastOp' = "afterprint"]_vars

\* The signal has been heard after window.print(); the call of onPrinted is
\* pending.
C15_Witness ==
    /\ lastOp = "afterprint"
    /\ form.printCalls = 1
    /\ form.signalled
    /\ form.doneTimers = 1

\* what the status cell of memo m shows under invoice map `map`
StatusShown(map, m) ==
    IF isInvoiced([memoList EXCEPT !.invoiceMap = map], m) THEN map[m] ELSE "Uninvoiced"

\* the invoice map built by the step that has just read the invoices
MapJustBuilt ==
    IF memoList'.pc = "idle" THEN memoList'.invoiceMap ELSE memoList'.gotInvoices[1]

\* C16: the status the memo list shows is derived from the persisted invoices
\* it fetched: a memo shows the number of a persisted invoice that contains
\* it, and shows Uninvoiced exactly when no persisted invoice contains it.
C16_StatusFollowsPersistedInvoices ==
    [][(MemoListGetInvoicesDone /\ toasts' = <<>>) =>
          \A m \in MemoNos :
              IF InvoicesLinking(m) = {}
              THEN StatusShown(MapJustBuilt, m) = "Uninvoiced"
              ELSE \E i \in InvoicesLinking(m) :
                      StatusShown(MapJustBuilt, m) = i.invoice_no]_vars

\* the steps in which a save, a delete or the eligible-memo fetch of a
\* customer change is rejected by the store
RejectedRequests ==
    {"saveFailed", "orphan.saveFailed", "invoiceList.deleteFailed",
     "memoList.deleteFailed", "orphan.deleteFailed", "customerMemosRejected"}

\* C17: a request rejected by the store raises exactly one notice.
C17_OneNoticePerFailure ==
    [][lastOp' \in RejectedRequests => Len(toasts') = 1]_vars

\* delete requests sent by the memo list, by the invoice list, and not yet
\* answered
MemoDeletesInFlight ==
    (IF memoList.pc = "delete" THEN 1 ELSE 0)
        + Cardinality({o \in orphans : o.kind = "deleteMemo"})

InvoiceDeletesInFlight ==
    (IF invList.pc = "delete" THEN 1 ELSE 0)
        + Cardinality({o \in orphans : o.kind = "deleteInvoice"})

\* C18: in both lists a delete request is sent only by confirming the open
\* confirmation, for the row it was opened for; cancelling sends nothing;
\* and each list has at most one delete request in flight.
C18_DeleteConfirmedAndSingle ==
    /\ [][(memoList'.pc = "delete" /\ memoList.pc # "delete") =>
             /\ lastOp' = "memoList.handleDelete"
             /\ memoList.isDeleteConfirmOpen
             /\ memoList'.deleteReq = memoList.memoToDelete
             /\ memoList.memoToDelete # NullMemo]_vars
    /\ [][(invList'.pc = "delete" /\ invList.pc # "delete") =>
             /\ lastOp' = "invoiceList.handleDelete"
             /\ invList.isDeleteConfirmOpen
             /\ invList'.deleteReq = invList.invoiceToDelete
             /\ invList.invoiceToDelete # NullId]_vars
    /\ [][lastOp' \in {"memoList.closeDeleteConfirmation",
                       "invoiceList.closeDeleteConfirmation"} =>
             /\ store' = store
             /\ orphans' = orphans
             /\ memoList'.pc = memoList.pc
             /\ invList'.pc = invList.pc]_vars
    /\ [](MemoDeletesInFlight <= 1 /\ InvoiceDeletesInFlight <= 1)

\* C19: amount_paid is never negative, neither in the draft of the form nor
\* in an invoice written by Save.
C19_AmountPaidNonNegative ==
    /\ form.pc # "unmounted" => form.invoice.amount_paid >= 0
    /\ \A r \in form.saveReq : r.inv.amount_paid >= 0
    /\ \A i \in store.invoices : i.amount_paid >= 0

\* C20: once the draft of a form has an invoice number no step of that form
\* changes it, every save request carries it, and the number of a persisted
\* invoice never changes, so an update writes the number that was loaded.
C20_InvoiceNumberImmutable ==
    [][/\ (form.pc # "unmounted" /\ form'.pc # "unmounted"
               /\ form.invoice.invoice_no # "") =>
              form'.invoice.invoice_no = form.invoice.invoice_no
       /\ \A r \in form'.saveReq \ form.saveReq :
              r.inv.invoice_no = form.invoice.invoice_no
       /\ \A i \in store.invoices : \A j \in store'.invoices :
              i.id = j.id => j.invoice_no = i.invoice_no]_vars

\* An invoice loaded with its number has just been updated with another
\* date, status and amount paid.
C20_Witness ==
    /\ lastOp = "saveSucceeded"
    /\ toasts = <<"Invoice updated successfully!">>
    /\ \E i \in store.invoices :
          /\ i.invoice_no # ""
          /\ i.invoice_date # Today
          /\ i.status = "Paid"
          /\ i.amount_paid = 200

\* a load of the invoice list, of the memo list, has just been rejected
InvoiceFetchJustFailed ==
    lastOp = "invoiceList.fetchData" /\ toasts # <<>>

MemoFetchJustFailed ==
    lastOp = "memoList.fetchData" /\ toasts # <<>>

\* C21: when a load of a list fails, on mount or after a delete, the list
\* shows no rows, one error notice is raised and the list is usable again.
C21_FailedFetchShowsNoRows ==
    /\ InvoiceFetchJustFailed =>
          /\ toasts = <<"Failed to fetch invoices.">>
          /\ invList.invoices = <<>>
          /\ ~invList.isLoading
          /\ ~invList.isSubmitting
    /\ MemoFetchJustFailed =>
          /\ toasts = <<"Failed to fetch memo and invoice data.">>
          /\ memoList.memos = <<>>
          /\ ~memoList.isLoading
          /\ ~memoList.isSubmitting

\* C22: when the store rejects a confirmed delete the rows and the invoicing
\* map of the list are what they were, the confirmation is closed, the list
\* is no longer submitting, nothing is written and one notice is raised.
C22_FailedDeleteKeepsRows ==
    [][/\ lastOp' = "memoList.deleteFailed" =>
              /\ memoList'.memos = memoList.memos
              /\ memoList'.invoiceMap = memoList.invoiceMap
              /\ ~memoList'.isDeleteConfirmOpen
              /\ memoList'.memoToDelete = NullMemo
              /\ ~memoList'.isSubmitting
              /\ memoList'.pc = "idle"
              /\ store' = store
              /\ toasts' = <<"Failed to delete memo">>
       /\ lastOp' = "invoiceList.deleteFailed" =>
              /\ invList'.invoices = invList.invoices
              /\ ~invList'.isDeleteConfirmOpen
              /\ invList'.invoiceToDelete = NullId
              /\ ~invList'.isSubmitting
              /\ invList'.pc = "idle"
              /\ store' = store
              /\ toasts' = <<"Failed to delete invoice">>
       /\ lastOp' = "orphan.deleteFailed" =>
              /\ store' = store
              /\ memoList' = memoList
              /\ invList' = invList
              /\ Len(toasts') = 1]_vars

\* The delete of an uninvoiced memo has just been rejected: both rows and
\* the invoicing map are still shown.
C22_Witness ==
    /\ lastOp = "memoList.deleteFailed"
    /\ Len(memoList.memos) = 2
    /\ \E m \in MemoNos : isInvoiced(memoList, m)
    /\ ~memoList.isDeleteConfirmOpen

\* C23: a Save whose write succeeds takes the application to the invoice
\* list, with no invoice being edited and the invoice print flag off; a Save
\* that is rejected, by the validation or by the store, leaves the
\* application where it is.
C23_SavedReturnsToList ==
    [][/\ lastOp' \in {"saveSucceeded", "orphan.saveSucceeded"} =>
              app' = [currentPage        |-> "MANAGE_INVOICES",
                      editingMemoNo      |-> app.editingMemoNo,
                      editingInvoiceId   |-> NullId,
                      printOnLoad        |-> app.printOnLoad,
                      printInvoiceOnLoad |-> FALSE]
       /\ lastOp' \in {"handleSave", "saveFailed", "orphan.saveFailed"} =>
              app' = app]_vars

\* The update of an invoice has just succeeded and the list is shown.
C23_Witness ==
    /\ lastOp = "saveSucceeded"
    /\ toasts = <<"Invoice updated successfully!">>
    /\ app.currentPage = "MANAGE_INVOICES"
    /\ app.editingInvoiceId = NullId
    /\ ~app.printInvoiceOnLoad

\* C24: after a toggle of a memo or a change of the amount paid the totals
\* are those of the memo_nos and amount_paid the step has set, and no step
\* that leaves memo_nos, amount_paid and the memo lookup alone changes them:
\* no earlier recomputation arrives later.
C24_TotalsFollowLatestInputs ==
    [][/\ lastOp' \in {"handleMemoSelection", "setAmountPaid"} =>
              /\ form'.invoice.total_amount
                     = ExpectedTotal(form'.invoice.memo_nos, form'.allMemos)
              /\ form'.invoice.balance
                     = form'.invoice.total_amount - form'.invoice.amount_paid
       /\ (/\ form.pc = "ready" /\ form'.pc = "ready"
           /\ form'.invoice.memo_nos = form.invoice.memo_nos
           /\ form'.invoice.amount_paid = form.invoice.amount_paid
           /\ form'.allMemos = form.allMemos) =>
              /\ form'.invoice.total_amount = form.invoice.total_amount
              /\ form'.invoice.balance = form.invoice.balance]_vars

\* A memo has just been toggled after 200 was typed, leaving M1 checked: the
\* totals are those of M1 and 200.
C24_Witness ==
    /\ lastOp = "handleMemoSelection"
    /\ form.invoice.memo_nos = <<"M1">>
    /\ form.invoice.amount_paid = 200
    /\ form.invoice.total_amount = 500
    /\ form.invoice.balance = 300

\* C25: the invoice print flag is set only while the invoice form is shown
\* for an identified invoice, and the memo print flag only while the memo
\* form is shown for an identified memo.
C25_DownloadModeOnlyForIdentified ==
    /\ app.printInvoiceOnLoad =>
          (app.editingInvoiceId # NullId /\ app.currentPage = "INVOICE_FORM")
    /\ app.printOnLoad =>
          (app.editingMemoNo # NullMemo /\ app.currentPage = "CREATE_MEMO")

\* C26: while a persisted invoice is edited every memo of its persisted
\* memo_nos is a row of the selection table, whether checked or not.
C26_OwnMemosStayDisplayed ==
    (FormShown /\ TruthyNum(form.invoice.id) /\ HasInvoice(store, form.invoice.id)) =>
        \A m \in Range(InvoiceById(store, form.invoice.id).memo_nos) :
            m \in displayMemos(form)

\* the memos the store holds as eligible for the customer of the draft
EligibleForDraft ==
    IF TruthyStr(form.invoice.customer_name)
    THEN getUninvoicedMemosForCustomer(store, form.invoice.customer_name)
    ELSE {}

\* C27: a change of customer on a new draft empties the selection, and once
\* every fetch of eligible memos is answered, or rejected, the memos offered
\* are eligible memos of the customer the draft now names, never those of a
\* customer chosen before.
C27_OfferedMemosAreOfCurrentCustomer ==
    /\ [][(lastOp' = "handleCustomerChange" /\ ~TruthyNum(form.invoice.id)) =>
             form'.invoice.memo_nos = <<>>]_vars
    /\ []((FormShown /\ form.pc = "ready" /\ ~TruthyNum(form.invoice.id)
              /\ form.invoice.invoice_no # "" /\ form.custReqs = {}) =>
             form.availableMemos \subseteq EligibleForDraft)

\* C28: the answer to a request of an invoice form that has been closed, a
\* save or an initial load, leaves the page and the editing state of the
\* application as they are.
C28_ClosedFormLeavesPageAlone ==
    [][lastOp' \in {"orphan.saveSucceeded", "orphan.saveFailed",
                    "orphan.loadInitialData"} => app' = app]_vars

\* C29: every invoice the form sends to the store, and so every persisted
\* invoice, carries a non-empty invoice number.
C29_SavedInvoiceHasNumber ==
    /\ \A r \in form.saveReq : r.inv.invoice_no # ""
    /\ \A i \in store.invoices : i.invoice_no # ""

\* C30: in download mode window.print() is called only for a form that holds
\* the invoice it was opened for.
C30_PrintOnlyLoadedInvoice ==
    [][(form'.printCalls > form.printCalls /\ app.printInvoiceOnLoad) =>
          /\ TruthyNum(form.invoice.id)
          /\ form.invoice.id = app.editingInvoiceId]_vars

\* C31: whenever the invoice list is the current page no invoice is marked
\* as being edited and download mode is off; so Create New Invoice, after
\* any edits, downloads, saves, cancels and navigation, opens the form
\* as a new invoice: a freshly mounted form with nothing to load by id and
\* no print pending.
C31_CreateOpensNewInvoice ==
    /\ [](app.currentPage = "MANAGE_INVOICES"
            => app.editingInvoiceId = NullId /\ ~app.printInvoiceOnLoad)
    /\ [][lastOp' = "onCreateInvoice"
            => /\ app' = [AppInitial EXCEPT !.currentPage = "INVOICE_FORM",
                                            !.editingMemoNo = app.editingMemoNo,
                                            !.printOnLoad = app.printOnLoad]
               /\ form' = FormMounted]_vars

\* Create New Invoice pressed while the load of an invoice opened earlier
\* by its id is still in flight
C31_Witness ==
    /\ lastOp = "onCreateInvoice"
    /\ \E o \in orphans : o.kind \in {"load1", "load2"} /\ TruthyNum(o.id)
    /\ store.invoices # {}
    /\ app.currentPage = "INVOICE_FORM"
    /\ form.pc = "load1"

\* the save requests in flight that were sent as createInvoice
CreateRequests(S) == {r \in S : r.op = "create"}

\* C32: one form instance has at most one save request in flight: Save is
\* disabled exactly while a request is in flight, and a request is sent only
\* when none is.  A draft is created at most once: a successful save adds
\* one invoice for a createInvoice and none otherwise, and it leaves the
\* form closed with no request in flight, and none handed over to outlive it;
\* the request of a form closed before the answer is answered once as well.
C32_OneSaveInFlight ==
    /\ [](/\ Cardinality(form.saveReq) <= 1
          /\ form.isSaving <=> form.saveReq # {})
    /\ [][/\ (lastOp' = "handleSave" /\ toasts' = <<>>)
                => /\ form.saveReq = {}
                   /\ Cardinality(form'.saveReq) = 1
          /\ lastOp' = "saveSucceeded"
                => /\ form' = FormUnmounted
                   /\ orphans' = orphans
                   /\ Cardinality(store'.invoices)
                        = Cardinality(store.invoices)
                            + Cardinality(CreateRequests(form.saveReq))
          /\ lastOp' = "saveFailed"
                => /\ form'.saveReq = {}
                   /\ store' = store
          /\ lastOp' = "orphan.saveSucceeded"
                => /\ Cardinality(store'.invoices) <= Cardinality(store.invoices) + 1
                   /\ \E o \in orphans :
                        /\ o.kind \in {"create", "update"}
                        /\ o \in orphans' => o \in OrphanedBy(form, invList, memoList)]_vars

\* the first invoice was created by a save that succeeded, and the form is
\* closed
C32_Witness ==
    /\ lastOp = "saveSucceeded"
    /\ toasts = <<"Invoice created successfully!">>
    /\ Cardinality(store.invoices) = 1
    /\ form = FormUnmounted
    /\ app.currentPage = "MANAGE_INVOICES"

====
